---- MODULE Spec2Model ----
(***************************************************************************)
(* The 2D entity of the-zero-overhead-principle, in its two variants:      *)
(*   src/C++/program.cpp  Entity<T> / Player with virtual moves and        *)
(*                        operator+=, and its main;                        *)
(*   src/C/program.c      struct Player with free functions, and its main. *)
(*                                                                         *)
(* A behaviour is one run of one client of one variant.  The client is     *)
(* either the variant's own main (the scripted driver, one action per      *)
(* source line) or a unit client that constructs two players from          *)
(* arbitrary coordinates and then calls the variant's operations in any    *)
(* order with arbitrary amounts.  Every call is recorded in hist with the  *)
(* state it started from and the value it returned.                        *)
(*                                                                         *)
(* Coordinates are int.  Signed overflow is undefined in both languages    *)
(* and the source does not guard against it; the arithmetic below is that  *)
(* of the integers, and NoOverflow states that no value of an explored run *)
(* leaves the range of int, so no explored run overflows.                  *)
(***************************************************************************)
EXTENDS Integers, Sequences, FiniteSets, TLC

VARIABLES
    lang,       \* "C++" or "C": which program runs
    client,     \* "main" (the program's driver) or "unit" (free calls)
    pc,         \* main: the source line executed next; unit: 0
    ents,       \* the players' storage: name -> [x, y]
    created,    \* the coordinates each player was constructed with
    stack,      \* the frame of an operator+= whose body is in progress
    hist,       \* the completed calls, in order
    ret,        \* the value returned by the last completed call / by main
    fault       \* TRUE once an integer division by zero was executed

vars == <<lang, client, pc, ents, created, stack, hist, ret, fault>>

-----------------------------------------------------------------------------
(* Bounds of the unit client's inputs.                                     *)

MaxAmt == 2
MaxCoord == 3
MaxCalls == 2

\* A negative, a zero and a positive amount (also the values given to setX, setY).
Amounts == {-MaxAmt, 0, MaxAmt}
\* Constructor arguments.
Coords == {0, MaxCoord}

UnitIds == {"p1", "p2"}

-----------------------------------------------------------------------------
(* Return values.                                                          *)

Void == [kind |-> "void"]
IntVal(v) == [kind |-> "int", val |-> v]
Ref(id) == [kind |-> "ref", val |-> id]

-----------------------------------------------------------------------------
(* src/C++/program.cpp: Entity<int> and Player.  es is the storage of all  *)
(* live objects, this the object the member function is called on.         *)

EntitySwapped(x, y) == [x |-> y, y |-> x]
Entity(x, y) == [x |-> x, y |-> y]

Player(x, y) == Entity(x, y)

setXAll(es, this, x) == [i \in DOMAIN es |-> [es[i] EXCEPT !.x = x]]
setX(es, this, x) == [es EXCEPT ![this].x = x]

getX(es, this) == es[this].x

setYAdds(es, this, y) == [es EXCEPT ![this].y = @ + y]
setY(es, this, y) == [es EXCEPT ![this].y = y]

getY(es, this) == es[this].y

move_leftAdds(es, this, amount) == [es EXCEPT ![this].x = @ + amount]
move_left(es, this, amount) == [es EXCEPT ![this].x = @ - amount]

move_rightAbs(es, this, amount) ==
    [es EXCEPT ![this].x = @ + (IF amount < 0 THEN -amount ELSE amount)]
move_right(es, this, amount) == [es EXCEPT ![this].x = @ + amount]

move_upBoth(es, this, amount) ==
    [es EXCEPT ![this].y = @ - amount, ![this].x = @ - amount]
move_up(es, this, amount) == [es EXCEPT ![this].y = @ - amount]

move_down(es, this, amount) == [es EXCEPT ![this].y = @ + amount]

\* operator+=, line 33: this->x += amount
plus_eq_33(es, this, amount) == [es EXCEPT ![this].x = @ + amount]
\* operator+=, line 34: this->y += amount
plus_eq_34Skipped(es, this, amount) == es
plus_eq_34(es, this, amount) == [es EXCEPT ![this].y = @ + amount]
\* operator+=, line 35: return *this
plus_eq_35Copy(this) == Ref("copy")
plus_eq_35(this) == Ref(this)

-----------------------------------------------------------------------------
(* src/C/program.c: struct Player and the player_ functions.  mem is the   *)
(* storage of all structs, p the pointer argument.                         *)

PlayerStruct(x, y) == [x |-> x, y |-> y]

player_setX(mem, p, x) == [mem EXCEPT ![p].x = x]
player_getX(mem, p) == mem[p].x
player_setY(mem, p, y) == [mem EXCEPT ![p].y = y]
player_getY(mem, p) == mem[p].y
player_move_left(mem, p, amount) == [mem EXCEPT ![p].x = @ - amount]
player_move_right(mem, p, amount) == [mem EXCEPT ![p].x = @ + amount]
player_move_up(mem, p, amount) == [mem EXCEPT ![p].y = @ - amount]
player_move_downSubtracts(mem, p, amount) == [mem EXCEPT ![p].y = @ - amount]
player_move_down(mem, p, amount) == [mem EXCEPT ![p].y = @ + amount]

-----------------------------------------------------------------------------
(* int division of C and C++: the quotient truncated toward zero.  The     *)
(* callers test the divisor first: a zero divisor is a fault, not a value. *)

Abs(v) == IF v < 0 THEN -v ELSE v

IntDiv(a, b) ==
    LET q == Abs(a) \div Abs(b)
    IN  IF (a < 0) = (b < 0) THEN q ELSE -q

-----------------------------------------------------------------------------
(* The clients.                                                            *)

\* src/C++/program.cpp line 40: Player p1(55, 47), p2(9, 74), p3(10, 25)
CppMainArgs == [p1 |-> <<55, 47>>, p2 |-> <<9, 74>>, p3 |-> <<10, 25>>]

\* src/C/program.c line 23: Player p1 = {55, 47}, p2 = {9, 74}, p3 = {10, 25}
CMainArgsZeroY == [p1 |-> <<55, 47>>, p2 |-> <<9, 74>>, p3 |-> <<10, -5>>]
CMainArgs == [p1 |-> <<55, 47>>, p2 |-> <<9, 74>>, p3 |-> <<10, 25>>]

Construct(l, args) ==
    [i \in DOMAIN args |->
        IF l = "C++" THEN Player(args[i][1], args[i][2])
                     ELSE PlayerStruct(args[i][1], args[i][2])]

Init ==
    /\ lang \in {"C++", "C"}
    /\ client \in {"main", "unit"}
    /\ created \in
         IF client = "main"
         THEN {IF lang = "C++" THEN CppMainArgs ELSE CMainArgs}
         ELSE [UnitIds -> Coords \X Coords]
    /\ ents = Construct(lang, created)
    /\ pc = IF client = "unit" THEN 0 ELSE IF lang = "C++" THEN 41 ELSE 24
    /\ stack = <<>>
    /\ hist = <<>>
    /\ ret = Void
    /\ fault = FALSE

\* A call that ran to completion: its effect on the storage, its record.
Completes(op, this, arg, es, r) ==
    /\ ents' = es
    /\ hist' = Append(hist, [op |-> op, this |-> this, arg |-> arg,
                             pre |-> ents, ret |-> r])
    /\ ret' = r
    /\ UNCHANGED <<lang, client, created, stack, fault>>

\* The storage right after the k-th completed call.
After(k) == IF k < Len(hist) THEN hist[k + 1].pre ELSE ents

\* An integer division whose divisor is 0: the program stops there.
DivByZero ==
    /\ fault' = TRUE
    /\ UNCHANGED <<lang, client, pc, ents, created, stack, hist, ret>>

\* Control is at line n of the main of variant l.
AtLine(l, n) ==
    /\ client = "main"
    /\ lang = l
    /\ pc = n
    /\ stack = <<>>
    /\ ~fault

\* operator+= is entered: line 33 runs, lines 34-35 are still to run.
EnterPlusEq(this, amount) ==
    /\ ents' = plus_eq_33(ents, this, amount)
    /\ stack' = <<[this |-> this, amount |-> amount, pre |-> ents]>>
    /\ UNCHANGED <<lang, client, pc, created, hist, ret, fault>>

\* operator+= lines 34-35: the second field, then return *this to the caller.
ReturnPlusEq ==
    /\ stack # <<>>
    /\ LET f == stack[1]
       IN  /\ ents' = plus_eq_34(ents, f.this, f.amount)
           /\ hist' = Append(hist, [op |-> "operator+=", this |-> f.this,
                                    arg |-> f.amount, pre |-> f.pre,
                                    ret |-> plus_eq_35(f.this)])
           /\ ret' = plus_eq_35(f.this)
    /\ stack' = <<>>
    /\ pc' = IF client = "main" THEN pc + 1 ELSE pc
    /\ UNCHANGED <<lang, client, created, fault>>

-----------------------------------------------------------------------------
(* src/C++/program.cpp, main, lines 41-50.                                 *)

Cpp41 ==
    /\ AtLine("C++", 41)
    /\ Completes("move_right", "p2", 5, move_right(ents, "p2", 5), Void)
    /\ pc' = 42

Cpp42 ==
    /\ AtLine("C++", 42)
    /\ Completes("move_down", "p3", 5, move_down(ents, "p3", 5), Void)
    /\ pc' = 43

Cpp43 ==
    /\ AtLine("C++", 43)
    /\ LET v == getX(ents, "p2") * getX(ents, "p3")
       IN  Completes("setX", "p1", v, setX(ents, "p1", v), Void)
    /\ pc' = 44

Cpp44 ==
    /\ AtLine("C++", 44)
    /\ LET v == getY(ents, "p2") * getY(ents, "p3")
       IN  Completes("setY", "p1", v, setY(ents, "p1", v), Void)
    /\ pc' = 45

Cpp45 ==
    /\ AtLine("C++", 45)
    /\ LET n == getX(ents, "p2")
           d == 2
       IN  IF d = 0
           THEN DivByZero
           ELSE /\ Completes("move_left", "p1", IntDiv(n, d),
                             move_left(ents, "p1", IntDiv(n, d)), Void)
                /\ pc' = 46

Cpp46 ==
    /\ AtLine("C++", 46)
    /\ LET n == getY(ents, "p2")
           d == 2
       IN  IF d = 0
           THEN DivByZero
           ELSE /\ Completes("move_up", "p1", IntDiv(n, d),
                             move_up(ents, "p1", IntDiv(n, d)), Void)
                /\ pc' = 47

Cpp47 == AtLine("C++", 47) /\ EnterPlusEq("p1", 1)

Cpp48 == AtLine("C++", 48) /\ EnterPlusEq("p2", 2)

Cpp49 == AtLine("C++", 49) /\ EnterPlusEq("p3", 3)

Cpp50 ==
    /\ AtLine("C++", 50)
    /\ ret' = IntVal(getX(ents, "p1") * getX(ents, "p2") * getX(ents, "p3"))
    /\ pc' = 51
    /\ UNCHANGED <<lang, client, ents, created, stack, hist, fault>>

-----------------------------------------------------------------------------
(* src/C/program.c, main, lines 24-30.                                     *)

C24 ==
    /\ AtLine("C", 24)
    /\ Completes("move_right", "p2", 5, player_move_right(ents, "p2", 5), Void)
    /\ pc' = 25

C25 ==
    /\ AtLine("C", 25)
    /\ Completes("move_down", "p3", 5, player_move_down(ents, "p3", 5), Void)
    /\ pc' = 26

C26 ==
    /\ AtLine("C", 26)
    /\ LET v == player_getX(ents, "p2") * player_getX(ents, "p3")
       IN  Completes("setX", "p1", v, player_setX(ents, "p1", v), Void)
    /\ pc' = 27

C27 ==
    /\ AtLine("C", 27)
    /\ LET n == player_getY(ents, "p2")
           d == player_getY(ents, "p3")
       IN  IF d = 0
           THEN DivByZero
           ELSE /\ Completes("setY", "p1", IntDiv(n, d),
                             player_setY(ents, "p1", IntDiv(n, d)), Void)
                /\ pc' = 28

C28 ==
    /\ AtLine("C", 28)
    /\ LET n == player_getX(ents, "p2")
           d == 2
       IN  IF d = 0
           THEN DivByZero
           ELSE /\ Completes("move_left", "p1", IntDiv(n, d),
                             player_move_left(ents, "p1", IntDiv(n, d)), Void)
                /\ pc' = 29

C29 ==
    /\ AtLine("C", 29)
    /\ LET n == player_getY(ents, "p2")
           d == 2
       IN  IF d = 0
           THEN DivByZero
           ELSE /\ Completes("move_up", "p1", IntDiv(n, d),
                             player_move_up(ents, "p1", IntDiv(n, d)), Void)
                /\ pc' = 30

C30 ==
    /\ AtLine("C", 30)
    /\ ret' = IntVal(player_getX(ents, "p1") * player_getX(ents, "p2")
                     * player_getX(ents, "p3"))
    /\ pc' = 31
    /\ UNCHANGED <<lang, client, ents, created, stack, hist, fault>>

-----------------------------------------------------------------------------
(* The unit client: any operation of the variant, on any player, with any  *)
(* amount, while no call is in progress.                                   *)

UnitReady ==
    /\ client = "unit"
    /\ stack = <<>>
    /\ Len(hist) < MaxCalls

UnitSetX(id, v) ==
    /\ UnitReady
    /\ Completes("setX", id, v,
                 IF lang = "C++" THEN setX(ents, id, v)
                                 ELSE player_setX(ents, id, v), Void)
    /\ UNCHANGED pc

UnitSetY(id, v) ==
    /\ UnitReady
    /\ Completes("setY", id, v,
                 IF lang = "C++" THEN setY(ents, id, v)
                                 ELSE player_setY(ents, id, v), Void)
    /\ UNCHANGED pc

UnitGetX(id) ==
    /\ UnitReady
    /\ Completes("getX", id, 0, ents,
                 IntVal(IF lang = "C++" THEN getX(ents, id)
                                        ELSE player_getX(ents, id)))
    /\ UNCHANGED pc

UnitGetY(id) ==
    /\ UnitReady
    /\ Completes("getY", id, 0, ents,
                 IntVal(IF lang = "C++" THEN getY(ents, id)
                                        ELSE player_getY(ents, id)))
    /\ UNCHANGED pc

UnitMoveLeft(id, a) ==
    /\ UnitReady
    /\ Completes("move_left", id, a,
                 IF lang = "C++" THEN move_left(ents, id, a)
                                 ELSE player_move_left(ents, id, a), Void)
    /\ UNCHANGED pc

UnitMoveRight(id, a) ==
    /\ UnitReady
    /\ Completes("move_right", id, a,
                 IF lang = "C++" THEN move_right(ents, id, a)
                                 ELSE player_move_right(ents, id, a), Void)
    /\ UNCHANGED pc

UnitMoveUp(id, a) ==
    /\ UnitReady
    /\ Completes("move_up", id, a,
                 IF lang = "C++" THEN move_up(ents, id, a)
                                 ELSE player_move_up(ents, id, a), Void)
    /\ UNCHANGED pc

UnitMoveDown(id, a) ==
    /\ UnitReady
    /\ Completes("move_down", id, a,
                 IF lang = "C++" THEN move_down(ents, id, a)
                                 ELSE player_move_down(ents, id, a), Void)
    /\ UNCHANGED pc

\* Only the C++ variant has operator+=.
UnitPlusEq(id, a) ==
    /\ UnitReady
    /\ lang = "C++"
    /\ EnterPlusEq(id, a)

UnitCall ==
    \E id \in UnitIds, a \in Amounts :
        \/ UnitSetX(id, a)
        \/ UnitSetY(id, a)
        \/ UnitGetX(id)
        \/ UnitGetY(id)
        \/ UnitMoveLeft(id, a)
        \/ UnitMoveRight(id, a)
        \/ UnitMoveUp(id, a)
        \/ UnitMoveDown(id, a)
        \/ UnitPlusEq(id, a)

CppMain ==
    \/ Cpp41 \/ Cpp42 \/ Cpp43 \/ Cpp44 \/ Cpp45
    \/ Cpp46 \/ Cpp47 \/ Cpp48 \/ Cpp49 \/ Cpp50

CMain == C24 \/ C25 \/ C26 \/ C27 \/ C28 \/ C29 \/ C30

Next == CppMain \/ CMain \/ UnitCall \/ ReturnPlusEq

Spec == Init /\ [][Next]_vars

-----------------------------------------------------------------------------
(* Reading the history.                                                    *)

Calls == 1..Len(hist)

\* After(k) is a state between two calls (not one inside operator+=).
Observable(k) == k < Len(hist) \/ stack = <<>>

\* The completed calls whose resulting state After(k) is such a state.
Seen == {k \in Calls : Observable(k)}

\* k and k+1 are two consecutive completed calls on the same object.
Pair(k, op1, op2) ==
    /\ k \in Calls
    /\ k + 1 \in Calls
    /\ Observable(k + 1)
    /\ hist[k].op = op1
    /\ hist[k + 1].op = op2
    /\ hist[k + 1].this = hist[k].this

AtExit ==
    /\ client = "main"
    /\ pc = IF lang = "C++" THEN 51 ELSE 31

\* int is 32 bits wide in both builds.
IntMax == 2147483647
InInt(v) == -IntMax - 1 <= v /\ v <= IntMax

\* No coordinate and no returned value leaves the range of int: within the
\* explored inputs no signed arithmetic overflows.
NoOverflow ==
    /\ \A i \in DOMAIN ents : InInt(ents[i].x) /\ InInt(ents[i].y)
    /\ ret.kind = "int" => InInt(ret.val)

-----------------------------------------------------------------------------
(* The claims.                                                             *)

\* C1 as stated: in both variants main returns 18620.
C1_Returns18620InBothVariants == AtExit => ret = IntVal(18620)

\* C1, amended: main returns the product of the three final x coordinates;
\* that is 133 * 14 * 10 = 18620 in the C variant and, after the three
\* operator+= of lines 47-49, 134 * 16 * 13 = 27872 in the C++ variant.
C1_MainReturnValue ==
    AtExit =>
        /\ ret = IntVal(ents["p1"].x * ents["p2"].x * ents["p3"].x)
        /\ lang = "C" => ret = IntVal(18620)
        /\ lang = "C++" => ret = IntVal(27872)

C1_Witness == AtExit /\ lang = "C++" /\ Len(hist) = 9

\* The first six calls of main, common to both variants:
\* move_right, move_down, setX, setY, move_left, move_up.
MainCommon ==
    /\ client = "main"
    /\ (Len(hist) >= 2 =>
            /\ After(2)["p2"] = [x |-> 14, y |-> 74]
            /\ After(2)["p3"] = [x |-> 10, y |-> 30])
    /\ (Len(hist) >= 3 => After(3)["p1"].x = 140)

\* C2 as stated: in both variants p1.y is set to 2220 and p1 ends the
\* moves at (133, 2183).
C2_SameScenarioInBothVariants ==
    client = "main" =>
        /\ MainCommon
        /\ (Len(hist) >= 4 => After(4)["p1"].y = 2220)
        /\ (Len(hist) >= 6 /\ Observable(6) =>
                After(6)["p1"] = [x |-> 133, y |-> 2183])

\* C2, amended: p2 = (14,74), p3 = (10,30) and p1.x = 140 in both variants;
\* the C++ variant sets p1.y = 74 * 30 = 2220 and leaves p1 at (133, 2183),
\* the C variant sets p1.y = 74 / 30 = 2 and leaves p1 at (133, -35).
C2_ScenarioPerVariant ==
    client = "main" =>
        /\ MainCommon
        /\ (Len(hist) >= 4 =>
                After(4)["p1"].y = IF lang = "C++" THEN 2220 ELSE 2)
        /\ (Len(hist) >= 6 /\ Observable(6) =>
                After(6)["p1"] = IF lang = "C++" THEN [x |-> 133, y |-> 2183]
                                                 ELSE [x |-> 133, y |-> -35])

C2_Witness ==
    /\ client = "main"
    /\ lang = "C"
    /\ Len(hist) = 6
    /\ hist[6].op = "move_up"
    /\ hist[6].arg = 37

\* C3: operator+=(a) and move_right(a) followed by move_down(a) end in the
\* same state: from (x, y) both reach (x + a, y + a).
C3_TranslateIsRightThenDown ==
    /\ \A k \in Seen :
         hist[k].op = "operator+=" =>
            LET e == hist[k].pre[hist[k].this]
                a == hist[k].arg
            IN  After(k)[hist[k].this] = [x |-> e.x + a, y |-> e.y + a]
    /\ \A k \in Calls :
         Pair(k, "move_right", "move_down") /\ hist[k + 1].arg = hist[k].arg
         /\ lang = "C++" =>
            LET t == hist[k].this
                e == hist[k].pre[t]
                a == hist[k].arg
            IN  /\ After(k + 1)[t] = [x |-> e.x + a, y |-> e.y + a]
                /\ After(k + 1) = plus_eq_34(plus_eq_33(hist[k].pre, t, a), t, a)

C3_Witness ==
    /\ lang = "C++"
    /\ Pair(1, "move_right", "move_down")
    /\ hist[1].arg = MaxAmt
    /\ hist[2].arg = MaxAmt

\* C4: move_left(a) then move_right(a), and move_up(a) then move_down(a),
\* leave the entity in the state it had before the two calls.
C4_OppositeMovesCancel ==
    \A k \in Calls :
        /\ Pair(k, "move_left", "move_right") \/ Pair(k, "move_up", "move_down")
        /\ hist[k + 1].arg = hist[k].arg
        => After(k + 1)[hist[k].this] = hist[k].pre[hist[k].this]

C4_Witness ==
    /\ Pair(1, "move_left", "move_right")
    /\ hist[1].arg = -MaxAmt
    /\ hist[2].arg = -MaxAmt
    /\ After(1)[hist[1].this] # hist[1].pre[hist[1].this]

\* The storage after the same call of the opposite move with amount -a.
Opposite(k) ==
    LET c == hist[k]
    IN  IF lang = "C++"
        THEN CASE c.op = "move_left" -> move_right(c.pre, c.this, -c.arg)
               [] c.op = "move_right" -> move_left(c.pre, c.this, -c.arg)
               [] c.op = "move_up" -> move_down(c.pre, c.this, -c.arg)
               [] c.op = "move_down" -> move_up(c.pre, c.this, -c.arg)
        ELSE CASE c.op = "move_left" -> player_move_right(c.pre, c.this, -c.arg)
               [] c.op = "move_right" -> player_move_left(c.pre, c.this, -c.arg)
               [] c.op = "move_up" -> player_move_down(c.pre, c.this, -c.arg)
               [] c.op = "move_down" -> player_move_up(c.pre, c.this, -c.arg)

\* C5: a move changes its own coordinate by the signed amount and leaves
\* the other one alone, and a move by -a is the opposite move by a.
C5_MoveEffect ==
    \A k \in Seen :
        LET c == hist[k]
            e == c.pre[c.this]
        IN  c.op \in {"move_left", "move_right", "move_up", "move_down"} =>
              /\ After(k)[c.this] =
                   CASE c.op = "move_left" -> [x |-> e.x - c.arg, y |-> e.y]
                     [] c.op = "move_right" -> [x |-> e.x + c.arg, y |-> e.y]
                     [] c.op = "move_up" -> [x |-> e.x, y |-> e.y - c.arg]
                     [] c.op = "move_down" -> [x |-> e.x, y |-> e.y + c.arg]
              /\ After(k) = Opposite(k)

C5_Witness ==
    /\ Len(hist) >= 1
    /\ hist[1].op = "move_left"
    /\ hist[1].arg = -MaxAmt
    /\ After(1)[hist[1].this].x = hist[1].pre[hist[1].this].x + MaxAmt

\* C6: a player constructed with (x, y) reports x and y, and a getter
\* returns the current coordinate and changes nothing.
C6_Getters ==
    \A k \in Seen :
        LET c == hist[k]
        IN  /\ c.op = "getX" =>
                /\ c.ret = IntVal(c.pre[c.this].x)
                /\ After(k) = c.pre
                /\ k = 1 => c.ret = IntVal(created[c.this][1])
            /\ c.op = "getY" =>
                /\ c.ret = IntVal(c.pre[c.this].y)
                /\ After(k) = c.pre
                /\ k = 1 => c.ret = IntVal(created[c.this][2])

C6_Witness ==
    /\ Len(hist) = 1
    /\ hist[1].op = "getX"
    /\ created[hist[1].this] = <<MaxCoord, 0>>
    /\ ret = IntVal(MaxCoord)

\* C7: while operator+= has updated x but not yet y no operation can start,
\* so the call that follows it sees both coordinates increased; the
\* operator returns the object it was called on, and a second operator+=
\* on the returned object leaves that object at (x + a + b, y + a + b).
C7_TranslateOneStep ==
    /\ stack # <<>> => ~ENABLED (CppMain \/ CMain \/ UnitCall)
    /\ \A k \in Calls :
         hist[k].op = "operator+=" =>
            LET c == hist[k]
                e == c.pre[c.this]
            IN  /\ c.ret = Ref(c.this)
                /\ k < Len(hist) =>
                     hist[k + 1].pre[c.this] =
                        [x |-> e.x + c.arg, y |-> e.y + c.arg]
                /\ Pair(k, "operator+=", "operator+=")
                   /\ hist[k + 1].this = c.ret.val =>
                     After(k + 1)[c.this] =
                        [x |-> e.x + c.arg + hist[k + 1].arg,
                         y |-> e.y + c.arg + hist[k + 1].arg]

C7_Witness ==
    /\ Pair(1, "operator+=", "operator+=")
    /\ hist[2].this = hist[1].ret.val
    /\ hist[1].arg = MaxAmt
    /\ hist[2].arg = -MaxAmt

\* C8: setX(v) leaves (v, y) and setY(v) leaves (x, v), whatever the state
\* before, and a second identical call changes nothing more.
C8_SettersIdempotent ==
    \A k \in Seen :
        LET c == hist[k]
            e == c.pre[c.this]
        IN  /\ c.op = "setX" => After(k)[c.this] = [x |-> c.arg, y |-> e.y]
            /\ c.op = "setY" => After(k)[c.this] = [x |-> e.x, y |-> c.arg]
            /\ (Pair(k, "setX", "setX") \/ Pair(k, "setY", "setY"))
               /\ hist[k + 1].arg = c.arg => After(k + 1) = After(k)

C8_Witness ==
    /\ Pair(1, "setY", "setY")
    /\ hist[1].arg = MaxAmt
    /\ hist[2].arg = MaxAmt
    /\ hist[1].pre[hist[1].this].y # MaxAmt
    /\ ents[hist[1].this].y = MaxAmt

\* C9: no division of either main runs with a zero divisor: the divisor
\* p3.y of line 27 of the C main is not 0 when control reaches it (the
\* other divisors are the literal 2) and no run faults.
C9_NoDivisionByZero ==
    /\ ~fault
    /\ AtLine("C", 27) => player_getY(ents, "p3") # 0

C9_Witness ==
    /\ client = "main"
    /\ lang = "C"
    /\ pc = 28
    /\ hist[4].op = "setY"
    /\ hist[4].pre["p3"].y = 30
    /\ ~fault

\* C10: a call changes no object but the one it is called on, also while
\* the body of operator+= is in progress.
C10_OtherEntitiesUnchanged ==
    /\ \A k \in Seen :
         \A i \in DOMAIN ents \ {hist[k].this} : After(k)[i] = hist[k].pre[i]
    /\ stack # <<>> =>
         \A i \in DOMAIN ents \ {stack[1].this} : ents[i] = stack[1].pre[i]

C10_Witness ==
    /\ Len(hist) >= 1
    /\ hist[1].op = "setX"
    /\ After(1)[hist[1].this] # hist[1].pre[hist[1].this]
    /\ \A i \in DOMAIN ents \ {hist[1].this} : After(1)[i] = hist[1].pre[i]

====
